---- MODULE Spec2Model ----
(***************************************************************************)
(* scripts/update_stocks.py: the cached stock dataset of the AI bubble     *)
(* tracker.  main() either fetches one year of daily closes for seven      *)
(* symbols from the market-data provider or synthesizes a seeded sample    *)
(* dataset, and writes the result once.                                    *)
(*                                                                         *)
(* Numbers.  Python floats are modelled in fixed point:                    *)
(*   - an unrounded price is an integer number of pips (1 pip = 0.0001),   *)
(*   - a price rounded to 2 decimals is an integer number of cents,        *)
(*   - a growth factor is in units of 0.0001 (a factor of 1.0 is 10000),   *)
(*   - a share count is in units of 10^8 shares, so that a market cap      *)
(*     (cents times share units) stays inside TLC's 32-bit integers,       *)
(*   - a percentage rounded to 2 decimals is in hundredths of a percent.   *)
(* Rounding is to the nearest unit, ties to even; where the exact value is *)
(* a tie, the binary float of the script may round to either neighbour.    *)
(* Time.  An instant is an integer number of clock ticks, a date is an     *)
(* integer number of days, and an ISO timestamp is modelled by the instant *)
(* it denotes.                                                             *)
(* Optional values.  Python's None is the empty sequence and a present     *)
(* value v is the one-element sequence <<v>>.                              *)
(***************************************************************************)
EXTENDS Integers, Sequences, FiniteSets, TLC

VARIABLES
    pc,        \* position of main(): "start", "check_fetch", "loop" (inside
               \* _fetch_live_data), "check_synth", "write", "done", or "crashed"
               \* (aborted by an uncaught exception); "idle" when main is not run
    demo,      \* args.demo
    yf,        \* the module-level name yf: "absent" (ImportError) or "present"
    now,       \* the wall clock, in ticks
    rng,       \* state of the module-level generator of `random`
    dataset,   \* main()'s local `dataset` (None or a dataset)
    live,      \* _fetch_live_data()'s local `dataset` while its loop runs
    idx,       \* index into all_symbols of the next symbol the loop queries
    written,   \* the datasets write_dataset has written, in order
    calls,     \* the provider queries made so far: [symbol, answer]
    failure,   \* the exception that aborted main(), with the locals at the raise
    steps,     \* the functions main() has entered, in order
    built,     \* the datasets returned by successive _build_sample_dataset runs
    reads,     \* for each of those runs, its two reads of the clock
    walk,      \* the synthetic price walk of one symbol, day by day
    bag,       \* the inputs and the result of one _bagholder_downtrend call
    pct        \* the inputs and the result of one _change_pct call

vars == <<pc, demo, yf, now, rng, dataset, live, idx, written, calls, failure,
          steps, built, reads, walk, bag, pct>>

-----------------------------------------------------------------------------
(* Bounds of the model *)

\* ticks of the clock per day
TicksPerDay == 2
\* the clock shows at most this many ticks when the program starts
MaxStart == 1
\* at most this many ticks pass between two consecutive reads of the clock
MaxElapsed == 1
\* days of the price walk explored with every noise draw
MaxWalkDays == 4
\* longest price sequence handed to _change_pct
MaxPctLen == 3
\* largest window handed to _change_pct
MaxPctDays == 3

-----------------------------------------------------------------------------
(* Optional values and Python sequences *)

None == <<>>
Some(v) == <<v>>
IsNone(o) == o = <<>>
\* Python truthiness of an optional number: None and 0 are falsy
Truthy(o) == o # <<>> /\ o[1] # 0
\* Python's `a or b` on optional numbers
PyOr(a, b) == IF Truthy(a) THEN a ELSE b

Last(s) == s[Len(s)]

\* Python's s[i] for a list s of length n, i counted from 0, negative i from
\* the end; an index outside -n..n-1 raises IndexError
IndexInRange(s, i) == -Len(s) <= i /\ i < Len(s)
PyIndex(s, i) == IF i < 0 THEN s[Len(s) + i + 1] ELSE s[i + 1]

-----------------------------------------------------------------------------
(* Arithmetic *)

Abs(n) == IF n < 0 THEN -n ELSE n
Max(a, b) == IF a >= b THEN a ELSE b

\* n / d rounded to the nearest integer, ties to the even one (d > 0)
RoundDiv(n, d) ==
    LET q == n \div d      \* the floor of n / d
        r == n % d
    IN  IF 2 * r > d \/ (2 * r = d /\ q % 2 = 1) THEN q + 1 ELSE q

\* round(x, 2) of a price: pips to cents
Round2(pips) == RoundDiv(pips, 100)

PipsPerDollar == 10000

-----------------------------------------------------------------------------
(* Module-level constants of the script *)

\* TICKERS, in dict order, with the base prices in pips
TICKERS == <<"NVDA", "MSFT", "GOOGL", "META", "AMZN">>
TickerBase ==
    [NVDA |-> 1400000, MSFT |-> 3500000, GOOGL |-> 1350000,
     META |-> 3000000, AMZN |-> 1200000]

\* BAGHOLDER_TICKERS, in dict order
BAGHOLDER_TICKERS == <<"CRWV", "NBIS">>
BagholderInfo ==
    [CRWV |-> [base |-> 85000, color |-> "#ef4444", label |-> "CoreWeave"],
     NBIS |-> [base |-> 120000, color |-> "#22c55e", label |-> "Nebius"]]

SeqToSet(s) == {s[i] : i \in 1..Len(s)}

\* the sentiment record is kept for this one symbol
SentimentSymbol == "NVDA"

-----------------------------------------------------------------------------
(* Clock and dates *)

\* datetime.now(timezone.utc).date()
DateOf(instant) == instant \div TicksPerDay
\* datetime.combine(date, datetime.min.time(), tzinfo=timezone.utc).isoformat()
IsoMidnight(date) == date * TicksPerDay
\* the instants a read of the clock can return when the last one returned t
ClockReads(t) == t..(t + MaxElapsed)

DaysPerWeek == 7

-----------------------------------------------------------------------------
(* _bagholder_downtrend *)

\* range(6, -1, -1) runs weeks_ago over 6, 5, ..., 0: NumWeeks points
NumWeeks == 7
\* 0.05 per week elapsed, in percent
DiscountPct == 5
\* max(0.5, ...), in millionths
BagholderFloor == 500000

WeeksAgo(k) == NumWeeks - k
\* faulty variant of Discount: the discount grows with weeks_ago
Discount_reversed(weeks_ago) == 5 * weeks_ago
\* discount = 0.05 * (6 - weeks_ago), in percent
Discount(weeks_ago) == DiscountPct * ((NumWeeks - 1) - weeks_ago)
\* price = max(0.5, base_price * (1 - discount)), in millionths: pips times
\* a factor in percent
BagholderPrice(base_price, weeks_ago) ==
    Max(BagholderFloor, base_price * (100 - Discount(weeks_ago)))
\* round(price, 2): millionths to cents
Round2Millionths(m) == RoundDiv(m, 10000)

\* the k-th point appended (k = 1 for weeks_ago = 6, ..., k = 7 for weeks_ago = 0)
BagholderPoint(base_price, today, k) ==
    [x |-> IsoMidnight(today - DaysPerWeek * WeeksAgo(k)),
     y |-> Round2Millionths(BagholderPrice(base_price, WeeksAgo(k)))]

_bagholder_downtrend(symbol, base_price, today) ==
    [k \in 1..NumWeeks |-> BagholderPoint(base_price, today, k)]

-----------------------------------------------------------------------------
(* _change_pct *)

\* The result of a call: ok = FALSE when the call raises (IndexError)
Returned(v) == [ok |-> TRUE, val |-> v]
Raised == [ok |-> FALSE, val |-> 0]

\* faulty variant of TooShort: `<` for `<=`
TooShort_strict(series, days) == Len(series) < days
\* if len(series) <= days: return 0.0
TooShort(series, days) == Len(series) <= days

\* round(((latest - past) / past) * 100, 2), in hundredths of a percent
PctRounded(latest, past) ==
    IF past > 0 THEN RoundDiv((latest - past) * 10000, past)
    ELSE RoundDiv((past - latest) * 10000, -past)

_change_pct(series, days) ==
    IF TooShort(series, days) THEN Returned(0)
    ELSE IF ~IndexInRange(series, -(days + 1)) THEN Raised
    ELSE LET past == PyIndex(series, -(days + 1))
             latest == PyIndex(series, -1)
         IN  IF past = 0 THEN Returned(0) ELSE Returned(PctRounded(latest, past))

-----------------------------------------------------------------------------
(* The generator of `random` *)

\* faulty variant of Seeded: the generator is not reseeded
Seeded_keep(g) == g
\* random.seed(1337)
SeedValue == 1337
Seeded(g) == SeedValue

\* One draw advances the generator.  The Mersenne Twister is modelled by a
\* linear congruential generator: what the script relies on is that the
\* draws are a function of the seed and lie in the requested interval.
RngMul == 75
RngInc == 74
RngMod == 65537
NextRng(g) == (g * RngMul + RngInc) % RngMod

\* random.uniform(-0.004, 0.004), as a factor in units of 0.0001
NoiseBound == 40
Noise(g) == (g % (2 * NoiseBound + 1)) - NoiseBound

-----------------------------------------------------------------------------
(* _build_sample_dataset *)

\* range(366)
NumDays == 366
\* faulty variant of StartDate: one day too early
StartDate_off(today) == today - 366
\* start = today - timedelta(days=365)
LookbackDays == 365
StartDate(today) == today - LookbackDays

\* round(math.sin(day / 20) * 100) for day = 0..365: the seasonal term
\* math.sin(day / 20) * 0.01 as a factor in units of 0.0001
SinTable == <<
    0, 5, 10, 15, 20, 25, 30, 34, 39, 43, 48, 52, 56, 61, 64, 68, 72, 75, 78, 81, 84, 87,
    89, 91, 93, 95, 96, 98, 99, 99, 100, 100, 100, 100, 99, 98, 97, 96, 95, 93, 91, 89,
    86, 84, 81, 78, 75, 71, 68, 64, 60, 56, 52, 47, 43, 38, 33, 29, 24, 19, 14, 9, 4, -1,
    -6, -11, -16, -21, -26, -30, -35, -40, -44, -49, -53, -57, -61, -65, -69, -72, -76,
    -79, -82, -85, -87, -89, -92, -94, -95, -97, -98, -99, -99, -100, -100, -100, -100,
    -99, -98, -97, -96, -94, -93, -91, -88, -86, -83, -80, -77, -74, -71, -67, -63, -59,
    -55, -51, -46, -42, -37, -33, -28, -23, -18, -13, -8, -3, 2, 7, 12, 17, 22, 26, 31,
    36, 40, 45, 49, 54, 58, 62, 66, 69, 73, 76, 79, 82, 85, 88, 90, 92, 94, 95, 97, 98,
    99, 99, 100, 100, 100, 100, 99, 98, 97, 96, 94, 92, 90, 88, 85, 83, 80, 77, 73, 70,
    66, 62, 58, 54, 50, 46, 41, 37, 32, 27, 22, 17, 12, 7, 2, -3, -8, -12, -17, -22, -27,
    -32, -37, -41, -46, -50, -54, -59, -63, -66, -70, -73, -77, -80, -83, -85, -88, -90,
    -92, -94, -96, -97, -98, -99, -100, -100, -100, -100, -99, -99, -98, -97, -95, -94,
    -92, -90, -88, -85, -82, -79, -76, -73, -69, -66, -62, -58, -54, -49, -45, -40, -36,
    -31, -26, -21, -17, -12, -7, -2, 3, 8, 13, 18, 23, 28, 33, 37, 42, 46, 51, 55, 59, 63,
    67, 71, 74, 77, 80, 83, 86, 88, 91, 93, 94, 96, 97, 98, 99, 100, 100, 100, 100, 99,
    99, 98, 97, 95, 93, 92, 89, 87, 85, 82, 79, 76, 72, 69, 65, 61, 57, 53, 49, 44, 40,
    35, 30, 26, 21, 16, 11, 6, 1, -4, -9, -14, -19, -24, -29, -34, -38, -43, -47, -52,
    -56, -60, -64, -68, -71, -75, -78, -81, -84, -86, -89, -91, -93, -95, -96, -97, -98,
    -99, -100, -100, -100, -100, -99, -99, -98, -96, -95, -93, -91, -89, -87, -84, -81,
    -78, -75, -72, -68, -64, -60, -56
    >>
Seasonal(day) == SinTable[day + 1]
\* drift = 0.0008
Drift == 8
\* max(1.0, ...), in pips
PriceFloor == 10000

\* faulty variant of DayStep: the floor of 1.0 is missing
DayStep_nofloor(price, day, noise) ==
    price + (price * (SinTable[day + 1] + 8 + noise)) \div 10000
\* price = max(1.0, price * (1 + seasonal + drift + noise)); the product is
\* taken as price + price * (seasonal + drift + noise), rounded down to a pip
DayStep(price, day, noise) ==
    Max(PriceFloor,
        price + (price * (Seasonal(day) + Drift + noise)) \div PipsPerDollar)

\* The body of the inner loop for `day` when the draw is `noise`: the new
\* price, and its rounding appended to the closes
StepWithNoise(w, day, noise) ==
    LET p2 == DayStep(w.price, day, noise)
    IN  [w EXCEPT !.price = p2, !.closes = Append(@, Round2(p2))]

\* One iteration of the inner loop: a draw of the generator, then the body
WalkDay(w, day) ==
    LET g2 == NextRng(w.rng)
    IN  [StepWithNoise(w, day, Noise(g2)) EXCEPT !.rng = g2]

\* The iterations for day = lo..hi in order, by halves.  (The test on the
\* left half's closes always holds; it makes TLC evaluate the left half
\* before the right one, which keeps its evaluation stack shallow.)
RECURSIVE WalkDays(_, _, _)
WalkDays(w, lo, hi) ==
    IF lo > hi THEN w
    ELSE IF lo = hi THEN WalkDay(w, lo)
    ELSE LET mid == (lo + hi) \div 2
             left == WalkDays(w, lo, mid)
         IN  IF Len(left.closes) > 0 THEN WalkDays(left, mid + 1, hi) ELSE left

\* The inner loop for one symbol: price = base_price, then range(366)
WalkFrom(base_price, g) ==
    WalkDays([price |-> base_price, rng |-> g, closes |-> <<>>], 0, NumDays - 1)

\* shares_outstanding = 24.5e9 if symbol == "NVDA" else 10e9, in 10^8 shares
SampleShares(symbol) == IF symbol = "NVDA" THEN 245 ELSE 100

\* round(prices[-1] * shares, 2)
MarketCapOf(prices, shares) == Last(prices) * shares

Sentiment(prices) ==
    [changePct5d |-> _change_pct(prices, 5).val,
     changePct30d |-> _change_pct(prices, 30).val]

SampleSeries(symbol, today, closes) ==
    [symbol |-> symbol,
     timestamps |-> [d \in 1..NumDays |-> IsoMidnight(StartDate(today) + (d - 1))],
     closes |-> closes,
     sharesOutstanding |-> Some(SampleShares(symbol)),
     marketCap |-> Some(MarketCapOf(closes, SampleShares(symbol)))]

\* The outer loop over TICKERS from the i-th symbol on, threading the
\* generator: the series records built, and the generator after the draws
RECURSIVE SampleSeriesFrom(_, _, _, _)
SampleSeriesFrom(i, today, g, acc) ==
    IF i > Len(TICKERS) THEN [series |-> acc, rng |-> g]
    ELSE LET symbol == TICKERS[i]
             w == WalkFrom(TickerBase[symbol], g)
         IN  SampleSeriesFrom(i + 1, today, w.rng,
                              acc @@ (symbol :> SampleSeries(symbol, today, w.closes)))

SampleBagholder(symbol, today) ==
    [symbol |-> symbol,
     label |-> BagholderInfo[symbol].label,
     color |-> BagholderInfo[symbol].color,
     data |-> _bagholder_downtrend(symbol, BagholderInfo[symbol].base, today)]

SampleNote ==
    "Generated offline; GitHub Actions will replace with live data when network is available."

\* A run of _build_sample_dataset entered with the generator in state g,
\* whose first read of the clock returns t1 and whose second returns t2:
\* the dataset returned and the generator left behind
_build_sample_dataset(g, t1, t2) ==
    LET today == DateOf(t1)
        s == SampleSeriesFrom(1, today, Seeded(g), <<>>)
    IN  [dataset |->
            [lastUpdated |-> t2,
             series |-> s.series,
             sentiment |-> (SentimentSymbol :> Sentiment(s.series[SentimentSymbol].closes)),
             metadata |-> [source |-> "sample", note |-> SampleNote],
             bagholders |-> [i \in 1..Len(BAGHOLDER_TICKERS) |->
                                SampleBagholder(BAGHOLDER_TICKERS[i], today)]],
         rng |-> s.rng]

-----------------------------------------------------------------------------
(* The market-data provider, as _fetch_live_data sees it *)

\* A history is a sequence of rows [date, close]; a close of None is NaN.
NaN == None
EmptyHistory == <<>>
GapHistory == <<[date |-> 0, close |-> NaN], [date |-> 1, close |-> NaN]>>
PriceHistory ==
    <<[date |-> 0, close |-> Some(1000000)], [date |-> 1, close |-> Some(1010000)],
      [date |-> 2, close |-> NaN],           [date |-> 3, close |-> Some(1025050)],
      [date |-> 4, close |-> Some(990000)],  [date |-> 5, close |-> Some(1000049)],
      [date |-> 6, close |-> Some(1100000)], [date |-> 7, close |-> Some(1210051)]>>
Histories == {EmptyHistory, GapHistory, PriceHistory}

\* ticker.fast_info (None when the attribute is missing) and
\* ticker.info.get("sharesOutstanding"), share counts in 10^8 shares
FastInfo(so, sh) == Some([shares_outstanding |-> so, shares |-> sh])
ShareSources ==
    { [fast_info |-> None,                       info |-> None],
      [fast_info |-> FastInfo(Some(245), None),  info |-> None],
      [fast_info |-> FastInfo(None, Some(245)),  info |-> None],
      [fast_info |-> FastInfo(Some(0), None),    info |-> Some(245)],
      [fast_info |-> None,                       info |-> Some(0)] }

\* What one query of the provider (yf.Ticker(symbol), ticker.history(...),
\* the attributes of ticker) can do: raise, or answer
ProviderAnswers ==
    { [raises |-> TRUE, rows |-> EmptyHistory, fast_info |-> None, info |-> None] }
    \cup { [raises |-> FALSE, rows |-> h, fast_info |-> s.fast_info, info |-> s.info] :
              h \in Histories, s \in ShareSources }

\* what came back from a query, for the record kept in `calls`
AnswerKind(a) ==
    IF a.raises THEN "raise" ELSE IF a.rows = <<>> THEN "empty" ELSE "rows"

-----------------------------------------------------------------------------
(* _fetch_live_data *)

\* all_symbols = list(TICKERS.keys()) + list(BAGHOLDER_TICKERS.keys())
all_symbols == TICKERS \o BAGHOLDER_TICKERS

\* if yf is None: return None
ProviderMissing(module) == module = "absent"

\* faulty variant of HistoryEmpty: the empty history is not detected
HistoryEmpty_never(rows) == FALSE
\* if history.empty: return None
HistoryEmpty(rows) == Len(rows) = 0

\* closes = history["Close"].dropna().round(2): the rows that have a close,
\* in order, the close rounded to cents
RECURSIVE DropNaRound(_)
DropNaRound(rows) ==
    IF rows = <<>> THEN <<>>
    ELSE LET rest == DropNaRound(Tail(rows))
         IN  IF IsNone(Head(rows).close) THEN rest
             ELSE <<[date |-> Head(rows).date, close |-> Round2(Head(rows).close[1])]>> \o rest

\* shares as lines 144-149 resolve it
ResolveShares(fast_info, info) ==
    LET fromFast == IF IsNone(fast_info) THEN None
                    ELSE PyOr(fast_info[1].shares_outstanding, fast_info[1].shares)
    IN  PyOr(fromFast, info)

\* the guard of the conditional expression of line 151: `if shares`
SharesKnown(shares) == Truthy(shares)

\* market_cap = round(prices[-1] * shares, 2) if shares else None; the
\* indexing raises IndexError on an empty prices
MarketCapRaises(prices, shares) == SharesKnown(shares) /\ ~IndexInRange(prices, -1)
\* faulty variant of LiveMarketCap: the first close for the last
LiveMarketCap_first(prices, shares) ==
    IF Truthy(shares) THEN Some(PyIndex(prices, 0) * shares[1]) ELSE None
LiveMarketCap(prices, shares) ==
    IF SharesKnown(shares) THEN Some(PyIndex(prices, -1) * shares[1]) ELSE None

FreshLiveDataset(t) ==
    [lastUpdated |-> t, series |-> <<>>, sentiment |-> <<>>,
     metadata |-> [source |-> "yfinance"], bagholders |-> <<>>]

\* the body of the loop for one symbol whose history is not empty, when
\* nothing raises: the dataset with the symbol's record added
AddSymbol(ds, symbol, rows, shares) ==
    LET closes == DropNaRound(rows)
        timestamps == [i \in 1..Len(closes) |-> IsoMidnight(closes[i].date)]
        prices == [i \in 1..Len(closes) |-> closes[i].close]
    IN  IF symbol \in SeqToSet(TICKERS)
        THEN [ds EXCEPT
                !.series = @ @@ (symbol :>
                    [symbol |-> symbol, timestamps |-> timestamps, closes |-> prices,
                     sharesOutstanding |-> shares,
                     marketCap |-> LiveMarketCap(prices, shares)]),
                !.sentiment = IF symbol = SentimentSymbol
                              THEN @ @@ (symbol :> Sentiment(prices)) ELSE @]
        ELSE [ds EXCEPT
                !.bagholders = Append(@,
                    [symbol |-> symbol,
                     label |-> BagholderInfo[symbol].label,
                     color |-> BagholderInfo[symbol].color,
                     data |-> [i \in 1..Len(closes) |->
                                 [x |-> timestamps[i], y |-> prices[i]]]])]

\* whether the body of the loop raises for this symbol: line 151, or one of
\* the _change_pct calls of lines 164-165
BodyRaises(symbol, rows, shares) ==
    LET closes == DropNaRound(rows)
        prices == [i \in 1..Len(closes) |-> closes[i].close]
    IN  \/ MarketCapRaises(prices, shares)
        \/ /\ symbol = SentimentSymbol
           /\ ~(_change_pct(prices, 5).ok /\ _change_pct(prices, 30).ok)

-----------------------------------------------------------------------------
(* main *)

\* faulty variant of NeedsFetch: the fetch is attempted whatever `dataset` holds
NeedsFetch_always(d) == TRUE
\* line 194: `if dataset is None` before the fetch
NeedsFetch(d) == IsNone(d)
\* line 197: `if dataset is None` before the fallback synthesis
NeedsSynthesis(d) == IsNone(d)

\* the generator as the process finds it: seeded from the system's entropy
RngStart == {4242}

mainVars == <<pc, demo, yf, dataset, live, idx, written, calls, failure, steps>>
sampleVars == <<built, reads>>
harnessVars == <<walk, bag, pct>>

MainIdle ==
    /\ pc = "idle" /\ demo = FALSE /\ yf = "absent"
    /\ dataset = None /\ live = None /\ idx = 0
    /\ written = <<>> /\ calls = <<>> /\ failure = None /\ steps = <<>>
SampleIdle == built = <<>> /\ reads = <<>>
ClockIdle == now = 0 /\ rng = 0
HarnessIdle == walk = <<>> /\ bag = <<>> /\ pct = <<>>

Init ==
    /\ pc = "start"
    /\ demo \in BOOLEAN
    /\ yf \in {"absent", "present"}
    /\ now \in 0..MaxStart
    /\ rng \in RngStart
    /\ dataset = None /\ live = None /\ idx = 0
    /\ written = <<>> /\ calls = <<>> /\ failure = None /\ steps = <<>>
    /\ SampleIdle /\ HarnessIdle

\* line 192: dataset = None if not args.demo else _build_sample_dataset()
MainDecide ==
    /\ pc = "start"
    /\ IF demo
       THEN \E t1 \in ClockReads(now) : \E t2 \in ClockReads(t1) :
               LET r == _build_sample_dataset(rng, t1, t2)
               IN  /\ dataset' = Some(r.dataset)
                   /\ rng' = r.rng
                   /\ now' = t2
                   /\ steps' = steps \o <<"decide", "synth">>
       ELSE /\ dataset' = None
            /\ steps' = Append(steps, "decide")
            /\ UNCHANGED <<rng, now>>
    /\ pc' = "check_fetch"
    /\ UNCHANGED <<demo, yf, live, idx, written, calls, failure>>
    /\ UNCHANGED <<sampleVars, harnessVars>>

\* lines 194-195 and 118-130: the call of _fetch_live_data up to its loop
MainFetch ==
    /\ pc = "check_fetch"
    /\ IF ~NeedsFetch(dataset)
       THEN /\ pc' = "check_synth"
            /\ UNCHANGED <<dataset, live, idx, now, steps>>
       ELSE IF ProviderMissing(yf)
       THEN /\ dataset' = None
            /\ pc' = "check_synth"
            /\ steps' = Append(steps, "fetch")
            /\ UNCHANGED <<live, idx, now>>
       ELSE \E t \in ClockReads(now) :
            /\ live' = Some(FreshLiveDataset(t))
            /\ now' = t
            /\ idx' = 1
            /\ pc' = "loop"
            /\ steps' = Append(steps, "fetch")
            /\ UNCHANGED dataset
    /\ UNCHANGED <<demo, yf, rng, written, calls, failure>>
    /\ UNCHANGED <<sampleVars, harnessVars>>

\* lines 134-176: one iteration of the loop, with the provider's answer
FetchSymbol ==
    /\ pc = "loop"
    /\ idx <= Len(all_symbols)
    /\ \E a \in ProviderAnswers :
         LET symbol == all_symbols[idx]
             shares == ResolveShares(a.fast_info, a.info)
         IN  /\ calls' = Append(calls, [symbol |-> symbol, answer |-> AnswerKind(a)])
             /\ IF a.raises
                THEN /\ pc' = "crashed"
                     /\ failure' = Some([raised |-> "provider", symbol |-> symbol,
                                         shares |-> None])
                     /\ UNCHANGED <<dataset, live, idx>>
                ELSE IF HistoryEmpty(a.rows)
                THEN /\ pc' = "check_synth"
                     /\ dataset' = None
                     /\ live' = None
                     /\ idx' = 0
                     /\ UNCHANGED failure
                ELSE IF BodyRaises(symbol, a.rows, shares)
                THEN /\ pc' = "crashed"
                     /\ failure' = Some([raised |-> "IndexError", symbol |-> symbol,
                                         shares |-> shares])
                     /\ UNCHANGED <<dataset, live, idx>>
                ELSE /\ live' = Some(AddSymbol(live[1], symbol, a.rows, shares))
                     /\ idx' = idx + 1
                     /\ UNCHANGED <<pc, dataset, failure>>
    /\ UNCHANGED <<demo, yf, now, rng, written, steps>>
    /\ UNCHANGED <<sampleVars, harnessVars>>

\* line 178: return dataset
FetchReturn ==
    /\ pc = "loop"
    /\ idx > Len(all_symbols)
    /\ dataset' = live
    /\ live' = None
    /\ idx' = 0
    /\ pc' = "check_synth"
    /\ UNCHANGED <<demo, yf, now, rng, written, calls, failure, steps>>
    /\ UNCHANGED <<sampleVars, harnessVars>>

\* lines 197-198: the fallback synthesis
MainSynth ==
    /\ pc = "check_synth"
    /\ IF NeedsSynthesis(dataset)
       THEN \E t1 \in ClockReads(now) : \E t2 \in ClockReads(t1) :
               LET r == _build_sample_dataset(rng, t1, t2)
               IN  /\ dataset' = Some(r.dataset)
                   /\ rng' = r.rng
                   /\ now' = t2
                   /\ steps' = Append(steps, "synth")
       ELSE UNCHANGED <<dataset, rng, now, steps>>
    /\ pc' = "write"
    /\ UNCHANGED <<demo, yf, live, idx, written, calls, failure>>
    /\ UNCHANGED <<sampleVars, harnessVars>>

\* lines 200 and 181-184: write_dataset(dataset)
write_dataset ==
    /\ pc = "write"
    /\ written' = Append(written, dataset[1])
    /\ steps' = Append(steps, "write")
    /\ pc' = "done"
    /\ UNCHANGED <<demo, yf, now, rng, dataset, live, idx, calls, failure>>
    /\ UNCHANGED <<sampleVars, harnessVars>>

Next ==
    \/ MainDecide
    \/ MainFetch
    \/ FetchSymbol
    \/ FetchReturn
    \/ MainSynth
    \/ write_dataset

Spec == Init /\ [][Next]_vars

-----------------------------------------------------------------------------
(* Runs of _build_sample_dataset, one after the other *)

SampleInit ==
    /\ now \in 0..MaxStart
    /\ rng \in RngStart
    /\ SampleIdle /\ MainIdle /\ HarnessIdle

SampleRun ==
    /\ Len(built) < 3
    /\ \E t1 \in ClockReads(now) : \E t2 \in ClockReads(t1) :
         LET r == _build_sample_dataset(rng, t1, t2)
         IN  /\ built' = Append(built, r.dataset)
             /\ reads' = Append(reads, [first |-> t1, second |-> t2])
             /\ rng' = r.rng
             /\ now' = t2
    /\ UNCHANGED <<mainVars, harnessVars>>

SampleNext == SampleRun

SpecSample == SampleInit /\ [][SampleNext]_vars

-----------------------------------------------------------------------------
(* The two synthetic series of one symbol, for any base price: the inner    *)
(* loop of _build_sample_dataset day by day with every draw, and            *)
(* _bagholder_downtrend                                                     *)

\* base prices in pips: negative, zero, below and at the floors, and
\* those of the script
BasePrices ==
    {-10000, 0, 3000, 5000, 6000, 10000, 10040, 85000, 120000, 1200000, 3500000}
\* the smallest, the middle and the largest draw of random.uniform
NoiseDraws == {-NoiseBound, 0, NoiseBound}

SeriesInit ==
    /\ \E b \in BasePrices :
         /\ walk = [base |-> b, day |-> 0, price |-> b, closes |-> <<>>]
         /\ \E sym \in SeqToSet(BAGHOLDER_TICKERS) : \E today \in 0..MaxStart :
              bag = [symbol |-> sym, base |-> b, today |-> today, data |-> <<>>]
    /\ pct = <<>>
    /\ ClockIdle /\ MainIdle /\ SampleIdle

WalkStep ==
    /\ walk.day < MaxWalkDays
    /\ \E noise \in NoiseDraws :
         walk' = [StepWithNoise(walk, walk.day, noise) EXCEPT !.day = @ + 1]
    /\ UNCHANGED <<bag, pct, now, rng, mainVars, sampleVars>>

BagholderRun ==
    /\ bag.data = <<>>
    /\ bag' = [bag EXCEPT !.data = _bagholder_downtrend(bag.symbol, bag.base, bag.today)]
    /\ UNCHANGED <<walk, pct, now, rng, mainVars, sampleVars>>

SeriesNext == WalkStep \/ BagholderRun

SpecSeries == SeriesInit /\ [][SeriesNext]_vars

-----------------------------------------------------------------------------
(* One call of _change_pct, for any price sequence and window *)

\* prices in cents
PctPrices == {-100, 0, 100, 103, 250}
PctSeries == UNION {[1..n -> PctPrices] : n \in 0..MaxPctLen}

PctInit ==
    /\ \E series \in PctSeries : \E days \in 0..MaxPctDays :
         pct = [series |-> series, days |-> days, result |-> None]
    /\ walk = <<>> /\ bag = <<>>
    /\ ClockIdle /\ MainIdle /\ SampleIdle

PctRun ==
    /\ pct.result = None
    /\ pct' = [pct EXCEPT !.result = Some(_change_pct(pct.series, pct.days))]
    /\ UNCHANGED <<walk, bag, now, rng, mainVars, sampleVars>>

PctNext == PctRun

SpecPct == PctInit /\ [][PctNext]_vars

-----------------------------------------------------------------------------
(* Properties of main, over the behaviours of Spec *)

DatasetKeys == {"lastUpdated", "series", "sentiment", "metadata", "bagholders"}
\* 5 series, one per TICKERS symbol, and 2 bagholders
IsFull(ds) ==
    /\ DOMAIN ds.series = SeqToSet(TICKERS)
    /\ Cardinality(DOMAIN ds.series) = 5
    /\ Len(ds.bagholders) = 2
IsFullSample(ds) == ds.metadata.source = "sample" /\ IsFull(ds)
Entered(step) == \E i \in 1..Len(steps) : steps[i] = step
Count(step) == Cardinality({i \in 1..Len(steps) : steps[i] = step})
Terminated == pc \in {"done", "crashed"}

\* C1: in a run with --demo, every dataset handed to write_dataset is a
\* sample dataset with 5 series and 2 bagholders, the run that ends has
\* written one, and neither _fetch_live_data nor the provider is ever called.
C1_DemoWritesSample ==
    demo =>
        /\ calls = <<>>
        /\ ~Entered("fetch")
        /\ \A i \in 1..Len(written) : IsFullSample(written[i])
        /\ (pc = "done" => Len(written) = 1)

C1_Witness == demo /\ yf = "present" /\ pc = "done" /\ Len(written) = 1

\* C2: in a run without --demo, once the provider has returned an empty
\* history for a symbol (whichever of the 7 it is), _fetch_live_data makes
\* no further query and returns no dataset, and the dataset then written is
\* the full sample dataset; a "yfinance" dataset with fewer than 5 series or
\* fewer than 2 bagholders is never written.
C2_EmptyHistoryFallsBack ==
    /\ \A i \in 1..Len(written) :
          written[i].metadata.source = "yfinance" => IsFull(written[i])
    /\ (~demo /\ \E i \in 1..Len(calls) : calls[i].answer = "empty") =>
          /\ Last(calls).answer = "empty"
          /\ pc \in {"check_synth", "write", "done"}
          /\ (pc = "check_synth" => IsNone(dataset))
          /\ (pc \in {"write", "done"} => IsFullSample(dataset[1]))
          /\ (pc = "done" => written = <<dataset[1]>>)

C2_Witness ==
    /\ pc = "done" /\ ~demo
    /\ Len(calls) = 7 /\ calls[7].answer = "empty"
    /\ IsFullSample(written[1])

\* C3: every run of main, whatever the flag and the provider do, ends having
\* written exactly one dataset, with the five keys, 5 series and 2 bagholders.
C3_AlwaysWritesOneDataset ==
    Terminated =>
        /\ pc = "done"
        /\ Len(written) = 1
        /\ DOMAIN written[1] = DatasetKeys
        /\ IsFull(written[1])

\* C9 (as amended): in every dataset _fetch_live_data returns, a series
\* record's marketCap is None exactly when its sharesOutstanding is None or
\* 0, and otherwise is the last close times sharesOutstanding; the fetch ends
\* without a dataset only on an empty history, and main is aborted only by a
\* query that raises or by a symbol whose share count is known.
ReturnedLive(d) == d # None /\ d[1].metadata.source = "yfinance"
C9_MarketCapIffSharesTruthy ==
    /\ ReturnedLive(dataset) =>
          \A sym \in DOMAIN dataset[1].series :
              LET r == dataset[1].series[sym]
              IN  /\ IsNone(r.marketCap) <=> ~Truthy(r.sharesOutstanding)
                  /\ Truthy(r.sharesOutstanding) =>
                        /\ Len(r.closes) > 0
                        /\ r.marketCap = Some(Last(r.closes) * r.sharesOutstanding[1])
    /\ (pc = "check_synth" /\ calls # <<>> /\ IsNone(dataset)) =>
          Last(calls).answer = "empty"
    /\ pc = "crashed" =>
          \/ Last(calls).answer = "raise" /\ failure[1].raised = "provider"
          \/ Last(calls).answer = "rows" /\ Truthy(failure[1].shares)

C9_Witness ==
    /\ pc = "done" /\ ReturnedLive(dataset)
    /\ dataset[1].series["NVDA"].sharesOutstanding = None
    /\ dataset[1].series["NVDA"].closes = <<>>
    /\ dataset[1].series["MSFT"].sharesOutstanding = Some(0)
    /\ dataset[1].series["GOOGL"].marketCap # None
    /\ written = <<dataset[1]>>

\* C9 (as claimed): in every dataset _fetch_live_data returns, a series
\* record's marketCap is None exactly when its sharesOutstanding is None.
C9_MarketCapIffSharesNone ==
    ReturnedLive(dataset) =>
        \A sym \in DOMAIN dataset[1].series :
            LET r == dataset[1].series[sym]
            IN  IsNone(r.marketCap) <=> IsNone(r.sharesOutstanding)

\* C10: in every run of main the steps come in the order decide, optional
\* fetch, optional synthesis, write; the fetch is entered at most once and
\* only without --demo, the synthesizer at most once, and write_dataset
\* exactly once, as the last step of the run; when the fetch returns a
\* dataset the synthesizer does not run and that dataset is the one written;
\* when the provider module is absent the provider is never queried.
IsPrefix(s, t) == Len(s) <= Len(t) /\ \A i \in 1..Len(s) : s[i] = t[i]
StepOrders ==
    { <<"decide", "fetch", "synth", "write">>,
      <<"decide", "fetch", "write">>,
      <<"decide", "synth", "write">> }
C10_StepOrder ==
    /\ \E order \in StepOrders : IsPrefix(steps, order)
    /\ Entered("fetch") => ~demo
    /\ Count("fetch") <= 1 /\ Count("synth") <= 1 /\ Count("write") <= 1
    /\ Terminated => Count("write") = 1 /\ Last(steps) = "write" /\ Len(written) = 1
    /\ (ReturnedLive(dataset) /\ pc = "done") =>
          ~Entered("synth") /\ written = <<dataset[1]>>
    /\ yf = "absent" => calls = <<>>

-----------------------------------------------------------------------------
(* Properties of _build_sample_dataset, over the behaviours of SpecSample *)

\* the date the i-th run takes for `today`: that of its first clock read
TodayOf(i) == DateOf(reads[i].first)

\* ds with every timestamp (series timestamps, bagholder x) moved by `days`
\* days and lastUpdated set aside
Shifted(ds, days) ==
    [ds EXCEPT
        !.lastUpdated = 0,
        !.series = [sym \in DOMAIN @ |->
            [@[sym] EXCEPT !.timestamps =
                [k \in DOMAIN @ |-> @[k] + days * TicksPerDay]]],
        !.bagholders = [b \in DOMAIN @ |->
            [@[b] EXCEPT !.data =
                [k \in DOMAIN @ |-> [@[k] EXCEPT !.x = @ + days * TicksPerDay]]]]]

\* C4 (as claimed): any two runs of _build_sample_dataset return datasets
\* equal in every field except lastUpdated, timestamps included.
C4_EqualButLastUpdated ==
    \A i, j \in 1..Len(built) : Shifted(built[i], 0) = Shifted(built[j], 0)

\* C4 (as amended): any two runs return the same closes, shares, market
\* caps, sentiment values, metadata and bagholder prices; lastUpdated is each
\* run's second clock read; the timestamps of one run are those of the other
\* moved by the number of days between the dates of their first clock reads,
\* so they are equal when the two runs start on the same UTC date.
C4_EqualUpToDates ==
    \A i, j \in 1..Len(built) :
        /\ Shifted(built[i], TodayOf(j) - TodayOf(i)) = Shifted(built[j], 0)
        /\ built[i].lastUpdated = reads[i].second
        /\ TodayOf(i) = TodayOf(j) => Shifted(built[i], 0) = Shifted(built[j], 0)

C4_Witness ==
    /\ Len(built) >= 3
    /\ TodayOf(1) # TodayOf(2)
    /\ TodayOf(2) = TodayOf(3)
    /\ built[2].lastUpdated # built[3].lastUpdated
    /\ built[1].series["NVDA"].closes = built[2].series["NVDA"].closes

\* C6: in every dataset _build_sample_dataset returns, each primary symbol
\* has 366 timestamps and 366 closes, consecutive timestamps are exactly one
\* day apart (so strictly increasing), the first is midnight of today minus
\* 365 days and the last is midnight of today.
C6_DailyTimestamps ==
    \A i \in 1..Len(built) : \A sym \in SeqToSet(TICKERS) :
        LET r == built[i].series[sym]
        IN  /\ Len(r.timestamps) = 366
            /\ Len(r.closes) = 366
            /\ \A k \in 1..365 :
                  /\ r.timestamps[k] < r.timestamps[k + 1]
                  /\ r.timestamps[k + 1] - r.timestamps[k] = TicksPerDay
            /\ r.timestamps[1] = (TodayOf(i) - 365) * TicksPerDay
            /\ r.timestamps[366] = TodayOf(i) * TicksPerDay
            /\ r.timestamps[366] <= reads[i].first
            /\ reads[i].first < r.timestamps[366] + TicksPerDay

\* a run whose two clock reads fall on different dates
C6_Witness ==
    /\ Len(built) >= 1
    /\ DateOf(reads[1].first) # DateOf(reads[1].second)
    /\ Len(built[1].series["AMZN"].timestamps) = 366

-----------------------------------------------------------------------------
(* Properties of the two synthetic series, over the behaviours of SpecSeries *)

\* C5: every recorded close of the synthetic walk is at least 1.0 (100
\* cents) and every recorded y of a bagholder series is at least 0.5 (50
\* cents), as stored after rounding, for any base price and any draw.
C5_Floors ==
    /\ \A k \in 1..Len(walk.closes) : walk.closes[k] >= 100
    /\ \A k \in 1..Len(bag.data) : bag.data[k].y >= 50

\* both floors at work: a base price of 0.6
C5_Witness ==
    /\ walk.base = 6000 /\ walk.day = MaxWalkDays
    /\ walk.closes[1] = 100
    /\ Len(bag.data) = 7 /\ bag.data[1].y = 60 /\ bag.data[7].y = 50

-----------------------------------------------------------------------------
(* Properties of _change_pct, over the behaviours of SpecPct *)

\* C8: _change_pct never raises; it returns 0.0 when the sequence has at
\* most `days` elements or when the element days + 1 from the end is 0, and
\* otherwise (latest - past) / past * 100 to the nearest hundredth.
C8_ChangePct ==
    pct.result # None =>
        LET r == pct.result[1]
            n == Len(pct.series)
        IN  /\ r.ok
            /\ n <= pct.days => r.val = 0
            /\ n > pct.days =>
                  LET past == pct.series[n - pct.days]
                      latest == pct.series[n]
                  IN  /\ past = 0 => r.val = 0
                      /\ past # 0 =>
                            2 * Abs(r.val * past - (latest - past) * 10000) <= Abs(past)

\* 100 -> 103 over one day: 3.00 percent
C8_Witness ==
    /\ pct.result # None
    /\ pct.series = <<250, 100, 103>> /\ pct.days = 1
    /\ pct.result[1] = [ok |-> TRUE, val |-> 300]

=============================================================================
